---- MODULE Spec2Model ----
(***************************************************************************)
(* Multi-tenant access control and derived-view cache of the NestJS        *)
(* backend: companies with owner and members, company-scoped products,     *)
(* projects and offers, the CompanyAccessGuard, the Voiceflow script       *)
(* cache and its invalidation, the Voiceflow webhook and its intent        *)
(* handlers, and the user accounts with the superadmin bootstrap.          *)
(*                                                                         *)
(* A request is a record that moves through the steps of its handler       *)
(* (one step per awaited store or cache call that a claim distinguishes);  *)
(* a handler that only reads, or whose steps no claim separates, is one    *)
(* step.  Identifiers are small integers handed out in creation order and  *)
(* never reused, as MongoDB ObjectIds are; BadId stands for a string that  *)
(* is not an ObjectId.                                                     *)
(***************************************************************************)
EXTENDS Integers, Sequences, FiniteSets, TLC

\* ---------------------------------------------------------------- bounds
MaxCompanies == 1
MaxResources == 2

\* ------------------------------------------------------------- constants
\* src/common/enums/role.enum (imported by the guard and the controllers)
Roles == {"USER", "ADMIN", "SUPERADMIN"}

\* registered users; GhostUser is a well-formed id of no user
UserIds   == {"u1", "u2"}
GhostUser == "u0"

\* what JwtStrategy hands to the handlers as request.user
Principals == [userId : UserIds, role : Roles]

CompanyIds  == 1..(MaxCompanies + 1)
ResourceIds == 1..MaxResources
BadId       == 0 - 1
NoId        == 0
Names       == {1, 2}

Kinds == {"products", "projects", "offers"}

NoDoc  == [exists |-> FALSE]
NoView == [cached |-> FALSE]

\* Types.ObjectId.isValid
ObjectIdIsValid(id) == id # BadId

\* HTTP statuses of the exceptions the handlers throw
Ok                  == 200
Created             == 201
NoContent           == 204
BadRequest          == 400
Forbidden           == 403
NotFound            == 404
Conflict            == 409
InternalServerError == 500

VARIABLES
  companies,     \* companyModel:  CompanyIds -> document or NoDoc
  nextCompany,   \* next fresh company id
  resources,     \* productModel / projectModel / offerModel: Kinds -> (ResourceIds -> document or NoDoc)
  nextResource,  \* Kinds -> next fresh resource id
  cache,         \* CACHE_MANAGER: key -> cached script or NoView
  reqs,          \* Slots -> the request in that slot and its position in the handler
  users          \* userModel: AccountIds -> document, or NoDoc for an id not yet given out

vars == <<companies, nextCompany, resources, nextResource, cache, reqs, users>>

Slots == {1, 2}

\* ------------------------------------------------------------ cache keys
\* CacheInterceptor has no @CacheKey on the script route, so it tracks the
\* GET request by its URL
ScriptUrlKey(cid) == <<"/companies/", cid, "/voiceflow/script">>

\* CacheInvalidationService.invalidateCompanyScript: `voiceflow:script:${companyId}`
getCacheKey(cid) == <<"voiceflow:script:", cid, "">>

CacheKeys == {ScriptUrlKey(c) : c \in CompanyIds \cup {BadId}}
             \cup {getCacheKey(c) : c \in CompanyIds \cup {BadId}}

\* -------------------------------------------------------------- requests
NoPrincipal == [userId |-> "", role |-> ""]

\* a key of the webhook's parameters object that is not sent reads undefined
Undefined == [t |-> "undefined"]

\* parameters?.key for the five keys the intent handlers read
NoParameters ==
  [limit |-> Undefined, query |-> Undefined, search |-> Undefined,
   productName |-> Undefined, name |-> Undefined]

\* VoiceflowWebhookRequestDto and the fields of VoiceflowWebhookResponseDto
\* that an intent handler fills
NoBody    == [intent |-> <<>>, companyId |-> NoId, parameters |-> NoParameters]
NoData    == [total |-> 0]
NoMessage == [says |-> ""]
NoOut     == [status |-> 0, msg |-> "", handler |-> "", data |-> NoData, message |-> NoMessage]

IdleReq ==
  [op |-> "none", p |-> NoPrincipal, cid |-> NoId, kind |-> "", rid |-> NoId,
   pc |-> "idle", status |-> 0, msg |-> "", ids |-> {}, view |-> NoView,
   trace |-> <<>>, body |-> NoBody, out |-> NoOut]

NewReq(op, p, cid) == [IdleReq EXCEPT !.op = op, !.p = p, !.cid = cid]

\* the slot is free: nothing received yet, or the last response was sent
Free(s) == reqs[s].pc \in {"idle", "done"}

Done(r, status, msg) == [r EXCEPT !.pc = "done", !.status = status, !.msg = msg]

\* --------------------------------------------------------------- the guard
\* a guard that lets ADMIN through as it lets SUPERADMIN through
canActivate_adminBypass(p, cid, comps) ==
  IF p.role # "USER" THEN [allow |-> TRUE, status |-> Ok, msg |-> ""]
  ELSE IF ~ObjectIdIsValid(cid)
    THEN [allow |-> FALSE, status |-> Forbidden, msg |-> "Invalid company ID format"]
  ELSE IF comps[cid] = NoDoc
    THEN [allow |-> FALSE, status |-> Forbidden, msg |-> "Company not found"]
  ELSE IF comps[cid].ownerId = p.userId
    THEN [allow |-> TRUE, status |-> Ok, msg |-> ""]
  ELSE IF p.userId \in comps[cid].members
    THEN [allow |-> TRUE, status |-> Ok, msg |-> ""]
  ELSE [allow |-> FALSE, status |-> Forbidden, msg |-> "Access denied"]

\* a guard that does not look at the members
canActivate_noMember(p, cid, comps) ==
  IF p.role = "SUPERADMIN" THEN [allow |-> TRUE, status |-> Ok, msg |-> ""]
  ELSE IF ~ObjectIdIsValid(cid)
    THEN [allow |-> FALSE, status |-> Forbidden, msg |-> "Invalid company ID format"]
  ELSE IF comps[cid] = NoDoc
    THEN [allow |-> FALSE, status |-> Forbidden, msg |-> "Company not found"]
  ELSE IF comps[cid].ownerId = p.userId
    THEN [allow |-> TRUE, status |-> Ok, msg |-> ""]
  ELSE [allow |-> FALSE, status |-> Forbidden, msg |-> "Access denied"]

\* CompanyAccessGuard.canActivate: every refusal is a ForbiddenException
canActivate(p, cid, comps) ==
  IF p.role = "SUPERADMIN" THEN [allow |-> TRUE, status |-> Ok, msg |-> ""]
  ELSE IF ~ObjectIdIsValid(cid)
    THEN [allow |-> FALSE, status |-> Forbidden, msg |-> "Invalid company ID format"]
  ELSE IF comps[cid] = NoDoc
    THEN [allow |-> FALSE, status |-> Forbidden, msg |-> "Company not found"]
  ELSE IF comps[cid].ownerId = p.userId
    THEN [allow |-> TRUE, status |-> Ok, msg |-> ""]
  ELSE IF p.userId \in comps[cid].members
    THEN [allow |-> TRUE, status |-> Ok, msg |-> ""]
  ELSE [allow |-> FALSE, status |-> Forbidden, msg |-> "Access denied"]

\* RolesGuard with the roles of a @Roles decorator
RolesGuard(required, p) == p.role \in required

\* ------------------------------------------------------------ the users
\* ids of user documents: those of the registered users and one more
AccountIds == UserIds \cup {"u3"}

UserDoc(email, role) == [exists |-> TRUE, email |-> email, role |-> role, isActive |-> TRUE]

\* the users collection where no claim is about it: u1 and u2 are registered
\* (the role a request carries is the one of its token)
RegisteredUsers ==
  [u \in AccountIds |-> IF u \in UserIds THEN UserDoc(u, "USER") ELSE NoDoc]

\* ------------------------------------------------------------------- Init
Init ==
  /\ companies = [c \in CompanyIds |-> NoDoc]
  /\ nextCompany = 1
  /\ resources = [k \in Kinds |-> [i \in ResourceIds |-> NoDoc]]
  /\ nextResource = [k \in Kinds |-> 1]
  /\ cache = [k \in CacheKeys |-> NoView]
  /\ reqs = [s \in Slots |-> IdleReq]
  /\ users = RegisteredUsers

Respond(s, r) == reqs' = [reqs EXCEPT ![s] = r]

\* ------------------------------------------------------ CompaniesService
NewCompany(ownerId, name) ==
  [exists |-> TRUE, ownerId |-> ownerId, members |-> {}, name |-> name,
   index |-> [k \in Kinds |-> {}]]

\* find({ $or: [{ ownerId }, { members }] }), the superseded listing query
findUserCompanies_orMember(userId, comps) ==
  {c \in CompanyIds : comps[c] # NoDoc
                      /\ (comps[c].ownerId = userId \/ userId \in comps[c].members)}

\* find({ ownerId: userId })
findUserCompanies(userId, comps) ==
  {c \in CompanyIds : comps[c] # NoDoc /\ comps[c].ownerId = userId}

\* find()
findAllCompanies(comps) == {c \in CompanyIds : comps[c] # NoDoc}

\* CompaniesService.findOne populates ownerId and members with user
\* documents, and the controller compares `populated.toString()` with the
\* principal's id.  What a populated document prints as is the ODM's
\* affair: for the user the reference names, the comparison may come out
\* either way; for any other user it is false.
PopulatedEquals(ref, userId) == IF ref = userId THEN {TRUE, FALSE} ELSE {FALSE}

\* --------------------------------------------------- CompaniesController
\* @Roles of the company routes
AnyRole == {"USER", "ADMIN", "SUPERADMIN"}

\* a DELETE route open to every role
DeleteRoles_any == {"USER", "ADMIN", "SUPERADMIN"}

DeleteRoles == {"ADMIN", "SUPERADMIN"}

\* POST /companies: the owner is the userId of the request body
CompaniesCreate(s, p, userId, name) ==
  /\ Free(s)
  /\ LET r == NewReq("companies.create", p, NoId) IN
     IF ~RolesGuard(AnyRole, p)
       THEN /\ Respond(s, Done(r, Forbidden, "Forbidden resource"))
            /\ UNCHANGED <<companies, nextCompany>>
     ELSE IF userId \notin UserIds
       THEN /\ Respond(s, Done(r, NotFound, "User not found"))
            /\ UNCHANGED <<companies, nextCompany>>
     ELSE /\ nextCompany <= MaxCompanies
          /\ companies' = [companies EXCEPT ![nextCompany] = NewCompany(userId, name)]
          /\ nextCompany' = nextCompany + 1
          /\ Respond(s, [Done(r, Created, "") EXCEPT !.cid = nextCompany,
                                                    !.trace = <<"write">>])
  /\ UNCHANGED <<resources, nextResource, cache, users>>

\* GET /companies
CompaniesFindAll(s, p) ==
  /\ Free(s)
  /\ LET r == NewReq("companies.findAll", p, NoId) IN
     IF ~RolesGuard(AnyRole, p)
       THEN Respond(s, Done(r, Forbidden, "Forbidden resource"))
     ELSE IF p.role = "SUPERADMIN"
       THEN Respond(s, [Done(r, Ok, "") EXCEPT !.ids = findAllCompanies(companies)])
     ELSE Respond(s, [Done(r, Ok, "") EXCEPT !.ids = findUserCompanies(p.userId, companies)])
  /\ UNCHANGED <<companies, nextCompany, resources, nextResource, cache, users>>

\* GET /companies/:id
CompaniesFindOne(s, p, id) ==
  /\ Free(s)
  /\ LET r == NewReq("companies.findOne", p, id) IN
     IF ~ObjectIdIsValid(id)
       THEN Respond(s, Done(r, InternalServerError, "CastError"))
     ELSE IF companies[id] = NoDoc
       THEN Respond(s, Done(r, NotFound, "Company not found"))
     ELSE IF p.role # "SUPERADMIN"
       THEN \E isOwner \in PopulatedEquals(companies[id].ownerId, p.userId) :
            \E isMember \in IF p.userId \in companies[id].members
                              THEN {TRUE, FALSE} ELSE {FALSE} :
              IF ~isOwner /\ ~isMember
                THEN Respond(s, Done(r, Forbidden, "You do not have access to this company"))
                ELSE Respond(s, Done(r, Ok, ""))
     ELSE Respond(s, Done(r, Ok, ""))
  /\ UNCHANGED <<companies, nextCompany, resources, nextResource, cache, users>>

\* an ownership test that ADMIN passes as SUPERADMIN does
OwnerOrSuperadmin_roleOnly(p, company) ==
  IF p.role # "USER" THEN {TRUE} ELSE PopulatedEquals(company.ownerId, p.userId)

\* the test shared by update, addMember and removeMember:
\* user.role !== SUPERADMIN && company.ownerId.toString() !== user.userId
OwnerOrSuperadmin(p, company) ==
  IF p.role = "SUPERADMIN" THEN {TRUE} ELSE PopulatedEquals(company.ownerId, p.userId)

\* PATCH /companies/:id
CompaniesUpdate(s, p, id, name) ==
  /\ Free(s)
  /\ LET r == NewReq("companies.update", p, id) IN
     IF ~ObjectIdIsValid(id)
       THEN /\ Respond(s, Done(r, InternalServerError, "CastError"))
            /\ UNCHANGED companies
     ELSE IF companies[id] = NoDoc
       THEN /\ Respond(s, Done(r, NotFound, "Company not found"))
            /\ UNCHANGED companies
     ELSE \E allowed \in OwnerOrSuperadmin(p, companies[id]) :
            IF ~allowed
              THEN /\ Respond(s, Done(r, Forbidden, "Only the company owner can update company details"))
                   /\ UNCHANGED companies
              ELSE /\ companies' = [companies EXCEPT ![id].name = name]
                   /\ Respond(s, [Done(r, Ok, "") EXCEPT !.trace = <<"write">>])
  /\ UNCHANGED <<nextCompany, resources, nextResource, cache, users>>

\* POST /companies/:id/members/:userId
CompaniesAddMember(s, p, id, userId) ==
  /\ Free(s)
  /\ LET r == NewReq("companies.addMember", p, id) IN
     IF ~ObjectIdIsValid(id)
       THEN /\ Respond(s, Done(r, InternalServerError, "CastError"))
            /\ UNCHANGED companies
     ELSE IF companies[id] = NoDoc
       THEN /\ Respond(s, Done(r, NotFound, "Company not found"))
            /\ UNCHANGED companies
     ELSE \E allowed \in OwnerOrSuperadmin(p, companies[id]) :
            IF ~allowed
              THEN /\ Respond(s, Done(r, Forbidden, "Only the company owner can add members"))
                   /\ UNCHANGED companies
            ELSE IF userId \notin UserIds
              THEN /\ Respond(s, Done(r, NotFound, "User not found"))
                   /\ UNCHANGED companies
            ELSE /\ companies' = [companies EXCEPT ![id].members = @ \cup {userId}]
                 /\ Respond(s, [Done(r, Ok, "") EXCEPT !.trace = <<"write">>])
  /\ UNCHANGED <<nextCompany, resources, nextResource, cache, users>>

\* DELETE /companies/:id/members/:userId
CompaniesRemoveMember(s, p, id, userId) ==
  /\ Free(s)
  /\ LET r == NewReq("companies.removeMember", p, id) IN
     IF ~ObjectIdIsValid(id)
       THEN /\ Respond(s, Done(r, InternalServerError, "CastError"))
            /\ UNCHANGED companies
     ELSE IF companies[id] = NoDoc
       THEN /\ Respond(s, Done(r, NotFound, "Company not found"))
            /\ UNCHANGED companies
     ELSE \E allowed \in OwnerOrSuperadmin(p, companies[id]) :
            IF ~allowed
              THEN /\ Respond(s, Done(r, Forbidden, "Only the company owner can remove members"))
                   /\ UNCHANGED companies
              ELSE /\ companies' = [companies EXCEPT ![id].members = @ \ {userId}]
                   /\ Respond(s, [Done(r, Ok, "") EXCEPT !.trace = <<"write">>])
  /\ UNCHANGED <<nextCompany, resources, nextResource, cache, users>>

\* DELETE /companies/:id
CompaniesDelete(s, p, id) ==
  /\ Free(s)
  /\ LET r == NewReq("companies.delete", p, id) IN
     IF ~RolesGuard(DeleteRoles, p)
       THEN /\ Respond(s, Done(r, Forbidden, "Forbidden resource"))
            /\ UNCHANGED companies
     ELSE IF ~ObjectIdIsValid(id)
       THEN /\ Respond(s, Done(r, InternalServerError, "CastError"))
            /\ UNCHANGED companies
     ELSE /\ companies' = [companies EXCEPT ![id] = NoDoc]
          /\ Respond(s, [Done(r, NoContent, "") EXCEPT !.trace = <<"write">>])
  /\ UNCHANGED <<nextCompany, resources, nextResource, cache, users>>

\* ---------------------------------------- ProductsService and its siblings
\* ProductsService, ProjectsService and OffersService are the same code over
\* their own collection; k names the collection.

\* find({ companyId }).sort({ createdAt: -1 }): newest first
RECURSIVE NewestFirst(_, _, _, _)
NewestFirst(docs, cid, i, acc) ==
  IF i > MaxResources THEN acc
  ELSE NewestFirst(docs, cid, i + 1,
         IF docs[i] # NoDoc /\ docs[i].companyId = cid THEN <<i>> \o acc ELSE acc)

findAll(docs, cid) == NewestFirst(docs, cid, 1, <<>>)

Range(f) == {f[i] : i \in DOMAIN f}

\* findOne({ _id }): a lookup that leaves the company out of the filter
findOne_byIdOnly(docs, cid, rid) ==
  IF rid \in ResourceIds /\ docs[rid] # NoDoc THEN docs[rid] ELSE NoDoc

\* findOne({ _id, companyId })
findOne(docs, cid, rid) ==
  IF rid \in ResourceIds /\ docs[rid] # NoDoc /\ docs[rid].companyId = cid
    THEN docs[rid] ELSE NoDoc

\* status of a successful mutation (@HttpCode of the route)
SuccessStatus(op) ==
  CASE op = "create" -> Created
    [] op = "remove" -> NoContent
    [] OTHER         -> Ok

\* @Roles on the DELETE routes: ProjectsController and OffersController name
\* SUPERADMIN, ProductsController has no RolesGuard
RemoveRoles(k) == IF k = "products" THEN AnyRole ELSE {"SUPERADMIN"}

\* documents created so far, over the three collections
CreatedSoFar(next) == next["products"] + next["projects"] + next["offers"] - 3

\* POST /companies/:companyId/<kind>: guard, then save()
ResCreate(s, p, cid, k, name) ==
  /\ Free(s)
  /\ LET r  == [NewReq("create", p, cid) EXCEPT !.kind = k]
         g  == canActivate(p, cid, companies)
         id == nextResource[k]
     IN
     IF ~g.allow
       THEN /\ Respond(s, Done(r, g.status, g.msg))
            /\ UNCHANGED <<resources, nextResource>>
     ELSE IF ~ObjectIdIsValid(cid)
       THEN /\ Respond(s, Done(r, InternalServerError, "BSONError"))
            /\ UNCHANGED <<resources, nextResource>>
     ELSE /\ CreatedSoFar(nextResource) < MaxResources
          /\ resources' = [resources EXCEPT ![k][id] =
                             [exists |-> TRUE, companyId |-> cid, name |-> name]]
          /\ nextResource' = [nextResource EXCEPT ![k] = id + 1]
          /\ Respond(s, [r EXCEPT !.pc = "index", !.rid = id, !.trace = <<"write">>])
  /\ UNCHANGED <<companies, nextCompany, cache, users>>

\* an update that drops the company's cached script before it looks the
\* resource up
ResUpdate_eagerInvalidate(s, p, cid, k, rid, name) ==
  /\ Free(s)
  /\ LET r == [NewReq("update", p, cid) EXCEPT !.kind = k, !.rid = rid]
         g == canActivate(p, cid, companies)
     IN
     IF ~g.allow
       THEN /\ Respond(s, Done(r, g.status, g.msg))
            /\ UNCHANGED <<resources, cache>>
     ELSE IF ~ObjectIdIsValid(rid)
       THEN /\ Respond(s, Done(r, NotFound, "Invalid product ID format"))
            /\ UNCHANGED <<resources, cache>>
     ELSE IF ~ObjectIdIsValid(cid)
       THEN /\ Respond(s, Done(r, InternalServerError, "BSONError"))
            /\ UNCHANGED <<resources, cache>>
     ELSE IF findOne(resources[k], cid, rid) = NoDoc
       THEN /\ Respond(s, Done(r, NotFound, "Product not found or does not belong to this company"))
            /\ cache' = [cache EXCEPT ![getCacheKey(cid)] = NoView]
            /\ UNCHANGED resources
     ELSE /\ resources' = [resources EXCEPT ![k][rid].name = name]
          /\ Respond(s, [r EXCEPT !.pc = "invalidate", !.trace = <<"write">>])
          /\ UNCHANGED cache
  /\ UNCHANGED <<companies, nextCompany, nextResource, users>>

\* PATCH /companies/:companyId/<kind>/:id: guard, then findOneAndUpdate
ResUpdate(s, p, cid, k, rid, name) ==
  /\ Free(s)
  /\ LET r == [NewReq("update", p, cid) EXCEPT !.kind = k, !.rid = rid]
         g == canActivate(p, cid, companies)
     IN
     IF ~g.allow
       THEN /\ Respond(s, Done(r, g.status, g.msg))
            /\ UNCHANGED resources
     ELSE IF ~ObjectIdIsValid(rid)
       THEN /\ Respond(s, Done(r, NotFound, "Invalid product ID format"))
            /\ UNCHANGED resources
     ELSE IF ~ObjectIdIsValid(cid)
       THEN /\ Respond(s, Done(r, InternalServerError, "BSONError"))
            /\ UNCHANGED resources
     ELSE IF findOne(resources[k], cid, rid) = NoDoc
       THEN /\ Respond(s, Done(r, NotFound, "Product not found or does not belong to this company"))
            /\ UNCHANGED resources
     ELSE /\ resources' = [resources EXCEPT ![k][rid].name = name]
          /\ Respond(s, [r EXCEPT !.pc = "invalidate", !.trace = <<"write">>])
  /\ UNCHANGED <<companies, nextCompany, nextResource, cache, users>>

\* DELETE /companies/:companyId/<kind>/:id: guards, then deleteOne
ResRemove(s, p, cid, k, rid) ==
  /\ Free(s)
  /\ LET r == [NewReq("remove", p, cid) EXCEPT !.kind = k, !.rid = rid]
         g == canActivate(p, cid, companies)
     IN
     IF ~g.allow
       THEN /\ Respond(s, Done(r, g.status, g.msg))
            /\ UNCHANGED resources
     ELSE IF ~RolesGuard(RemoveRoles(k), p)
       THEN /\ Respond(s, Done(r, Forbidden, "Forbidden resource"))
            /\ UNCHANGED resources
     ELSE IF ~ObjectIdIsValid(rid)
       THEN /\ Respond(s, Done(r, NotFound, "Invalid product ID format"))
            /\ UNCHANGED resources
     ELSE IF ~ObjectIdIsValid(cid)
       THEN /\ Respond(s, Done(r, InternalServerError, "BSONError"))
            /\ UNCHANGED resources
     ELSE IF findOne(resources[k], cid, rid) = NoDoc
       THEN /\ Respond(s, Done(r, NotFound, "Product not found or does not belong to this company"))
            /\ UNCHANGED resources
     ELSE /\ resources' = [resources EXCEPT ![k][rid] = NoDoc]
          /\ Respond(s, [r EXCEPT !.pc = "index", !.trace = <<"write">>])
  /\ UNCHANGED <<companies, nextCompany, nextResource, cache, users>>

\* an id-array update that answers without invalidating
ResIndex_skipInvalidate(s) ==
  /\ reqs[s].pc = "index"
  /\ LET r == reqs[s] IN
     /\ companies' =
          IF companies[r.cid] = NoDoc THEN companies
          ELSE [companies EXCEPT ![r.cid].index[r.kind] =
                  IF r.op = "create" THEN @ \cup {r.rid} ELSE @ \ {r.rid}]
     /\ Respond(s, [Done(r, SuccessStatus(r.op), "") EXCEPT !.trace = Append(@, "index")])
  /\ UNCHANGED <<nextCompany, resources, nextResource, cache, users>>

\* companyModel.findByIdAndUpdate(companyId, { $addToSet | $pull }): the
\* company's id array follows the write; a missing company is no error
ResIndex(s) ==
  /\ reqs[s].pc = "index"
  /\ LET r == reqs[s] IN
     /\ companies' =
          IF companies[r.cid] = NoDoc THEN companies
          ELSE [companies EXCEPT ![r.cid].index[r.kind] =
                  IF r.op = "create" THEN @ \cup {r.rid} ELSE @ \ {r.rid}]
     /\ Respond(s, [r EXCEPT !.pc = "invalidate", !.trace = Append(@, "index")])
  /\ UNCHANGED <<nextCompany, resources, nextResource, cache, users>>

\* an invalidation that empties the whole cache
invalidateCompanyScript_all(c, cid) == [k \in DOMAIN c |-> NoView]

\* CacheInvalidationService.invalidateCompanyScript: del(key) is awaited with
\* no try/catch around it, here or in the callers
invalidateCompanyScript(c, cid) == [c EXCEPT ![getCacheKey(cid)] = NoView]

\* the last step of create, update and remove; the cache store may fail
ResInvalidate(s) ==
  /\ reqs[s].pc = "invalidate"
  /\ LET r == [reqs[s] EXCEPT !.trace = Append(@, "invalidate")] IN
     \E delOk \in BOOLEAN :
       IF delOk
         THEN /\ cache' = invalidateCompanyScript(cache, r.cid)
              /\ Respond(s, Done(r, SuccessStatus(r.op), ""))
         ELSE /\ cache' = cache
              /\ Respond(s, Done(r, InternalServerError, "cache del failed"))
  /\ UNCHANGED <<companies, nextCompany, resources, nextResource, users>>

\* GET /companies/:companyId/<kind>
ResFindAll(s, p, cid, k) ==
  /\ Free(s)
  /\ LET r == [NewReq("findAll", p, cid) EXCEPT !.kind = k]
         g == canActivate(p, cid, companies)
     IN
     IF ~g.allow THEN Respond(s, Done(r, g.status, g.msg))
     ELSE IF ~ObjectIdIsValid(cid)
       THEN Respond(s, Done(r, InternalServerError, "BSONError"))
     ELSE Respond(s, [Done(r, Ok, "") EXCEPT !.ids = Range(findAll(resources[k], cid))])
  /\ UNCHANGED <<companies, nextCompany, resources, nextResource, cache, users>>

\* GET /companies/:companyId/<kind>/:id
ResFindOne(s, p, cid, k, rid) ==
  /\ Free(s)
  /\ LET r == [NewReq("findOne", p, cid) EXCEPT !.kind = k, !.rid = rid]
         g == canActivate(p, cid, companies)
     IN
     IF ~g.allow THEN Respond(s, Done(r, g.status, g.msg))
     ELSE IF ~ObjectIdIsValid(rid)
       THEN Respond(s, Done(r, NotFound, "Invalid product ID format"))
     ELSE IF ~ObjectIdIsValid(cid)
       THEN Respond(s, Done(r, InternalServerError, "BSONError"))
     ELSE IF findOne(resources[k], cid, rid) = NoDoc
       THEN Respond(s, Done(r, NotFound, "Product not found or does not belong to this company"))
     ELSE Respond(s, [Done(r, Ok, "") EXCEPT !.ids = {rid}])
  /\ UNCHANGED <<companies, nextCompany, resources, nextResource, cache, users>>

\* ------------------------------------------------------ VoiceflowService
\* names of a company's documents of one kind, newest first
NamesOf(docs, cid) == [i \in DOMAIN findAll(docs, cid) |-> docs[findAll(docs, cid)[i]].name]

\* a generateResponses that says nothing about products when there are none
generateResponses_noFallback(products, projects, offers) ==
  <<"welcome", "contact">>
  \o (IF Len(products) > 0
        THEN <<IF Len(products) > 1 THEN "product_count_plural" ELSE "product_count",
               "product_first">>
             \o (IF Len(products) > 1 THEN <<"product_second">> ELSE <<>>)
             \o <<"product_inquiry">>
        ELSE <<>>)
  \o (IF Len(projects) > 0
        THEN <<IF Len(projects) > 1 THEN "project_count_plural" ELSE "project_count",
               "project_first">>
        ELSE <<>>)
  \o (IF Len(offers) > 0
        THEN <<IF Len(offers) > 1 THEN "offer_count_plural" ELSE "offer_count",
               "offer_top">>
             \o (IF Len(offers) > 1 THEN <<"offer_second">> ELSE <<>>)
             \o <<"offer_deals">>
        ELSE <<>>)
  \o <<"closing">>

\* VoiceflowService.generateResponses: the lines are templates, each named
\* here by what it says; a count line has a singular and a plural wording
generateResponses(products, projects, offers) ==
  <<"welcome", "contact">>
  \o (IF Len(products) > 0
        THEN <<IF Len(products) > 1 THEN "product_count_plural" ELSE "product_count",
               "product_first">>
             \o (IF Len(products) > 1 THEN <<"product_second">> ELSE <<>>)
             \o <<"product_inquiry">>
        ELSE <<"catalog_updating">>)
  \o (IF Len(projects) > 0
        THEN <<IF Len(projects) > 1 THEN "project_count_plural" ELSE "project_count",
               "project_first">>
        ELSE <<>>)
  \o (IF Len(offers) > 0
        THEN <<IF Len(offers) > 1 THEN "offer_count_plural" ELSE "offer_count",
               "offer_top">>
             \o (IF Len(offers) > 1 THEN <<"offer_second">> ELSE <<>>)
             \o <<"offer_deals">>
        ELSE <<>>)
  \o <<"closing">>

\* mapCompanyToVoiceflow (generated_at, a wall-clock stamp, is left out)
mapCompanyToVoiceflow(company, res, cid) ==
  [cached         |-> TRUE,
   company_id     |-> cid,
   company_name   |-> company.name,
   products       |-> NamesOf(res["products"], cid),
   projects       |-> NamesOf(res["projects"], cid),
   offers         |-> NamesOf(res["offers"], cid),
   total_products |-> Len(findAll(res["products"], cid)),
   total_projects |-> Len(findAll(res["projects"], cid)),
   total_offers   |-> Len(findAll(res["offers"], cid)),
   responses      |-> generateResponses(findAll(res["products"], cid),
                                        findAll(res["projects"], cid),
                                        findAll(res["offers"], cid)),
   version        |-> "v1"]

\* the collections generateScript queries before it returns or throws: none
\* for an id that is no ObjectId, the companies alone when findById finds
\* nothing, and the three resource collections after that
collectionsRead(cid, comps) ==
  IF ~ObjectIdIsValid(cid) THEN {}
  ELSE IF comps[cid] = NoDoc THEN {"companies"}
  ELSE {"companies"} \cup Kinds

\* a generateScript that builds a view for a company it did not find
generateScript_anyCompany(cid, comps, res) ==
  IF ~ObjectIdIsValid(cid) THEN NoView
  ELSE mapCompanyToVoiceflow(IF comps[cid] = NoDoc THEN NewCompany("u1", 1) ELSE comps[cid],
                             res, cid)

\* VoiceflowService.generateScript: the view, or NoView for NotFoundException
generateScript(cid, comps, res) ==
  IF ~ObjectIdIsValid(cid) THEN NoView
  ELSE IF comps[cid] = NoDoc THEN NoView
  ELSE mapCompanyToVoiceflow(comps[cid], res, cid)

\* --------------------------------------------------- VoiceflowController
\* a script route whose cache lookup comes before its guard
ScriptRead_cacheFirst(s, p, cid) ==
  /\ Free(s)
  /\ LET r == NewReq("script", p, cid)
         g == canActivate(p, cid, companies)
     IN
     IF cache[ScriptUrlKey(cid)] # NoView
       THEN Respond(s, [Done(r, Ok, "") EXCEPT !.view = cache[ScriptUrlKey(cid)],
                                              !.trace = <<"hit">>])
     ELSE IF ~g.allow THEN Respond(s, Done(r, g.status, g.msg))
     ELSE Respond(s, [r EXCEPT !.pc = "build", !.trace = <<"miss">>])
  /\ UNCHANGED <<companies, nextCompany, resources, nextResource, cache, users>>

\* GET /companies/:companyId/voiceflow/script: guard, then the
\* CacheInterceptor looks the request up; a hit is the response
ScriptRead(s, p, cid) ==
  /\ Free(s)
  /\ LET r == NewReq("script", p, cid)
         g == canActivate(p, cid, companies)
     IN
     IF ~g.allow THEN Respond(s, Done(r, g.status, g.msg))
     ELSE IF cache[ScriptUrlKey(cid)] # NoView
       THEN Respond(s, [Done(r, Ok, "") EXCEPT !.view = cache[ScriptUrlKey(cid)],
                                              !.trace = <<"hit">>])
     ELSE Respond(s, [r EXCEPT !.pc = "build", !.trace = <<"miss">>])
  /\ UNCHANGED <<companies, nextCompany, resources, nextResource, cache, users>>

\* on a miss the handler runs generateScript
ScriptBuild(s) ==
  /\ reqs[s].pc = "build"
  /\ LET r == reqs[s]
         v == generateScript(r.cid, companies, resources)
     IN
     IF v = NoView
       THEN Respond(s, Done(r, NotFound, "Company not found"))
       ELSE Respond(s, [r EXCEPT !.pc = "store", !.view = v, !.trace = Append(@, "build")])
  /\ UNCHANGED <<companies, nextCompany, resources, nextResource, cache, users>>

\* and the interceptor stores the response under the request's key
ScriptStore(s) ==
  /\ reqs[s].pc = "store"
  /\ LET r == reqs[s] IN
     /\ cache' = [cache EXCEPT ![ScriptUrlKey(r.cid)] = r.view]
     /\ Respond(s, [Done(r, Ok, "") EXCEPT !.trace = Append(@, "store")])
  /\ UNCHANGED <<companies, nextCompany, resources, nextResource, users>>

\* a preview that answers from the cache when it can
PreviewScript_cached(s, p, cid) ==
  /\ Free(s)
  /\ LET r == NewReq("preview", p, cid)
         g == canActivate(p, cid, companies)
         v == generateScript(cid, companies, resources)
     IN
     IF ~g.allow THEN Respond(s, Done(r, g.status, g.msg))
     ELSE IF ObjectIdIsValid(cid) /\ cache[ScriptUrlKey(cid)] # NoView
       THEN Respond(s, [Done(r, Ok, "") EXCEPT !.view = cache[ScriptUrlKey(cid)],
                                              !.trace = <<"hit">>])
     ELSE IF v = NoView THEN Respond(s, Done(r, NotFound, "Company not found"))
     ELSE Respond(s, [Done(r, Ok, "") EXCEPT !.view = v, !.trace = <<"build">>])
  /\ UNCHANGED <<companies, nextCompany, resources, nextResource, cache, users>>

\* GET /companies/:companyId/voiceflow/preview: no interceptor
PreviewScript(s, p, cid) ==
  /\ Free(s)
  /\ LET r == NewReq("preview", p, cid)
         g == canActivate(p, cid, companies)
         v == generateScript(cid, companies, resources)
     IN
     IF ~g.allow THEN Respond(s, Done(r, g.status, g.msg))
     ELSE IF v = NoView THEN Respond(s, Done(r, NotFound, "Company not found"))
     ELSE Respond(s, [Done(r, Ok, "") EXCEPT !.view = v, !.trace = <<"build">>])
  /\ UNCHANGED <<companies, nextCompany, resources, nextResource, cache, users>>

\* CacheModule.register({ ttl: 300000, max: 100 }): an entry leaves the
\* cache when its TTL runs out
CacheExpire(key) ==
  /\ cache[key] # NoView
  /\ cache' = [cache EXCEPT ![key] = NoView]
  /\ UNCHANGED <<companies, nextCompany, resources, nextResource, reqs, users>>

\* -------------------------------------------------------- WebhookService
\* A string of a webhook request is the sequence of its characters.
UpperCase ==
  <<"A", "B", "C", "D", "E", "F", "G", "H", "I", "J", "K", "L", "M",
    "N", "O", "P", "Q", "R", "S", "T", "U", "V", "W", "X", "Y", "Z">>

LowerCase ==
  <<"a", "b", "c", "d", "e", "f", "g", "h", "i", "j", "k", "l", "m",
    "n", "o", "p", "q", "r", "s", "t", "u", "v", "w", "x", "y", "z">>

\* the letter of the other case, for the letters that have one
LowerOf == [c \in {UpperCase[i] : i \in DOMAIN UpperCase} |->
              LowerCase[CHOOSE i \in DOMAIN UpperCase : UpperCase[i] = c]]

UpperOf == [c \in {LowerCase[i] : i \in DOMAIN LowerCase} |->
              UpperCase[CHOOSE i \in DOMAIN LowerCase : LowerCase[i] = c]]

toLowerChar(c) == IF c \in DOMAIN LowerOf THEN LowerOf[c] ELSE c

toUpperChar(c) == IF c \in DOMAIN UpperOf THEN UpperOf[c] ELSE c

\* a dispatch that compares the intent as it was sent
toLowerCase_asSent(str) == str

\* String.prototype.toLowerCase
toLowerCase(str) == [i \in DOMAIN str |-> toLowerChar(str[i])]

toUpperCase(str) == [i \in DOMAIN str |-> toUpperChar(str[i])]

\* the words the case labels of the switch are made of
Underscore == <<"_">>
Get        == <<"g", "e", "t">>
List       == <<"l", "i", "s", "t">>
Show       == <<"s", "h", "o", "w">>
Search     == <<"s", "e", "a", "r", "c", "h">>
Product    == <<"p", "r", "o", "d", "u", "c", "t">>
Products   == Product \o <<"s">>
Projects   == <<"p", "r", "o", "j", "e", "c", "t", "s">>
Offers     == <<"o", "f", "f", "e", "r", "s">>
Deals      == <<"d", "e", "a", "l", "s">>
Details    == <<"d", "e", "t", "a", "i", "l", "s">>
Info       == <<"i", "n", "f", "o">>
Company    == <<"c", "o", "m", "p", "a", "n", "y">>

\* the case labels, by the handler they fall through to
ProductsAliases ==
  {Get \o Underscore \o Products, List \o Underscore \o Products,
   Show \o Underscore \o Products}

ProductDetailsAliases ==
  {Get \o Underscore \o Product \o Underscore \o Details,
   Product \o Underscore \o Info}

ProjectsAliases == {Get \o Underscore \o Projects, List \o Underscore \o Projects}

OffersAliases ==
  {Get \o Underscore \o Offers, List \o Underscore \o Offers,
   Show \o Underscore \o Deals}

CompanyInfoAliases ==
  {Get \o Underscore \o Company \o Underscore \o Info,
   Company \o Underscore \o Details}

SearchProductsAliases == {Search \o Underscore \o Products}

\* switch (intent.toLowerCase()): the handler the intent is routed to, or
\* "default"
intentHandler(intent) ==
  LET label == toLowerCase(intent) IN
  CASE label \in ProductsAliases       -> "handleGetProducts"
    [] label \in ProductDetailsAliases -> "handleGetProductDetails"
    [] label \in ProjectsAliases       -> "handleGetProjects"
    [] label \in OffersAliases         -> "handleGetOffers"
    [] label \in CompanyInfoAliases    -> "handleGetCompanyInfo"
    [] label \in SearchProductsAliases -> "handleSearchProducts"
    [] OTHER                           -> "default"

\* values of the parameters object besides undefined
Num(n)    == [t |-> "number", v |-> n]
Str(str)  == [t |-> "string", v |-> str]

\* ToBoolean of a parameter value
Truthy(x) ==
  CASE x.t = "undefined" -> FALSE
    [] x.t = "number"    -> x.v # 0
    [] x.t = "string"    -> x.v # <<>>

\* the || operator
Or(a, b) == IF Truthy(a) THEN a ELSE b

DefaultLimit == 10
SearchLimit  == 5

\* cursor.limit(n) with n > 0
Limit(docs, n) == SubSeq(docs, 1, IF Len(docs) < n THEN Len(docs) ELSE n)

\* what the handler's await came to; handler names the intent handler that
\* ran, "" when none did
WebhookFailure(handler, status, msg) ==
  [status |-> status, msg |-> msg, handler |-> handler, data |-> NoData, message |-> NoMessage]

WebhookSuccess(handler, data, message) ==
  [status |-> Created, msg |-> "", handler |-> handler, data |-> data, message |-> message]

\* handleGetProducts: limit = parameters?.limit || 10, newest first
handleGetProducts(cid, parameters, res) ==
  LET limit    == Or(parameters.limit, Num(DefaultLimit))
      products == Limit(findAll(res["products"], cid), limit.v)
  IN { WebhookSuccess("handleGetProducts",
         [products |-> products, total |-> Len(products), limit |-> limit.v],
         IF Len(products) > 0
           THEN [says   |-> "I found N product(s) for you. NAME is priced at $PRICE.",
                 count  |-> Len(products), plural |-> Len(products) > 1,
                 name   |-> res["products"][products[1]].name,
                 price  |-> res["products"][products[1]].price]
           ELSE [says |-> "We don't have any products available right now."]) }

\* new RegExp(pattern, 'i') over the patterns of the requests: letters, the
\* wildcard "." and "(", which opens a group that nothing closes
RegExpCompiles(pattern) == \A i \in DOMAIN pattern : pattern[i] # "("

\* RegExp.prototype.test, case-insensitive
RegExpTest(pattern, text) ==
  \E k \in 1..(Len(text) - Len(pattern) + 1) :
    \A i \in DOMAIN pattern :
      pattern[i] = "." \/ toLowerChar(pattern[i]) = toLowerChar(text[k + i - 1])

\* ids of the company's products that the filter selects
Matching(docs, cid, fields, pattern) ==
  {i \in Range(findAll(docs, cid)) : \E f \in fields : RegExpTest(pattern, docs[i][f])}

\* handleGetProductDetails: findOne has no sort, any matching product may
\* be the one returned
handleGetProductDetails(cid, parameters, res) ==
  LET productName == Or(parameters.productName, parameters.name)
      found       == Matching(res["products"], cid, {"name"}, productName.v)
  IN
  IF ~Truthy(productName)
    THEN {WebhookFailure("handleGetProductDetails", BadRequest, "Product name is required")}
  ELSE IF ~RegExpCompiles(productName.v)
    THEN {WebhookFailure("handleGetProductDetails", InternalServerError, "SyntaxError")}
  ELSE IF found = {}
    THEN {WebhookSuccess("handleGetProductDetails", [found |-> FALSE],
                         [says |-> "Sorry, I couldn't find a product called NAME.", name |-> productName.v])}
  ELSE {WebhookSuccess("handleGetProductDetails", [found |-> TRUE, product |-> i],
                       [says  |-> "NAME - DESCRIPTION. It's priced at $PRICE.",
                        name  |-> res["products"][i].name,
                        price |-> res["products"][i].price]) : i \in found}

\* handleGetProjects
handleGetProjects(cid, parameters, res) ==
  LET limit    == Or(parameters.limit, Num(DefaultLimit))
      projects == Limit(findAll(res["projects"], cid), limit.v)
  IN { WebhookSuccess("handleGetProjects",
         [projects |-> projects, total |-> Len(projects)],
         IF Len(projects) > 0
           THEN [says   |-> "We're currently working on N project(s). Our main focus is TITLE.",
                 count  |-> Len(projects), plural |-> Len(projects) > 1,
                 name   |-> res["projects"][projects[1]].name]
           ELSE [says |-> "We don't have any active projects at the moment."]) }

\* the orders sort({ discount: -1 }) may give: offers of one discount come
\* in any order (an offer's name field stands for its discount)
BestDealsFirst(docs, cid) ==
  LET ids == Range(findAll(docs, cid)) IN
  {o \in [1..Cardinality(ids) -> ids] :
     /\ \A i, j \in DOMAIN o : i # j => o[i] # o[j]
     /\ \A i, j \in DOMAIN o : i < j => docs[o[i]].name >= docs[o[j]].name}

\* handleGetOffers
handleGetOffers(cid, parameters, res) ==
  { WebhookSuccess("handleGetOffers",
      [offers |-> offers, total |-> Len(offers)],
      IF Len(offers) > 0
        THEN [says     |-> "Great news! We have N special offer(s) available. TITLE gives you DISCOUNT% off!",
              count    |-> Len(offers), plural |-> Len(offers) > 1,
              discount |-> res["offers"][offers[1]].name]
        ELSE [says |-> "We don't have any special offers right now."])
    : offers \in BestDealsFirst(res["offers"], cid) }

\* handleGetCompanyInfo (websiteUrl and phoneNumber are carried by no
\* company of the model)
handleGetCompanyInfo(company) ==
  { WebhookSuccess("handleGetCompanyInfo", [company |-> [name |-> company.name]],
                   [says |-> "We are NAME.", name |-> company.name]) }

\* the orders find(filter).limit(5) may give: the filter has no sort
SearchResults(found) ==
  LET n == IF Cardinality(found) < SearchLimit THEN Cardinality(found) ELSE SearchLimit IN
  {o \in [1..n -> found] : \A i, j \in DOMAIN o : i # j => o[i] # o[j]}

\* handleSearchProducts
handleSearchProducts(cid, parameters, res) ==
  LET query == Or(parameters.query, parameters.search)
      found == Matching(res["products"], cid, {"name", "description"}, query.v)
  IN
  IF ~Truthy(query)
    THEN {WebhookFailure("handleSearchProducts", BadRequest, "Search query is required")}
  ELSE IF ~RegExpCompiles(query.v)
    THEN {WebhookFailure("handleSearchProducts", InternalServerError, "SyntaxError")}
  ELSE { WebhookSuccess("handleSearchProducts",
           [query |-> query.v, products |-> products, total |-> Len(products)],
           IF Len(products) > 0
             THEN [says  |-> "I found N product(s) matching QUERY.",
                   count |-> Len(products), plural |-> Len(products) > 1,
                   query |-> query.v]
             ELSE [says  |-> "Sorry, I couldn't find any products matching QUERY.",
                   query |-> query.v])
         : products \in SearchResults(found) }

\* a handleWebhook that looks at the intent before it looks at the company
handleWebhook_intentFirst(request, comps, res) ==
  IF intentHandler(request.intent) = "default"
    THEN {WebhookFailure("", BadRequest, "Unknown intent")}
  ELSE IF ~ObjectIdIsValid(request.companyId)
    THEN {WebhookFailure("", BadRequest, "Invalid company ID format")}
  ELSE IF comps[request.companyId] = NoDoc
    THEN {WebhookFailure("", NotFound, "Company not found")}
  ELSE {WebhookSuccess(intentHandler(request.intent), NoData, NoMessage)}

\* WebhookService.handleWebhook: the responses the request may get
handleWebhook(request, comps, res) ==
  LET companyId  == request.companyId
      parameters == request.parameters
      handler    == intentHandler(request.intent)
  IN
  IF ~ObjectIdIsValid(companyId)
    THEN {WebhookFailure("", BadRequest, "Invalid company ID format")}
  ELSE IF comps[companyId] = NoDoc
    THEN {WebhookFailure("", NotFound, "Company not found")}
  ELSE CASE handler = "handleGetProducts"       -> handleGetProducts(companyId, parameters, res)
         [] handler = "handleGetProductDetails" -> handleGetProductDetails(companyId, parameters, res)
         [] handler = "handleGetProjects"       -> handleGetProjects(companyId, parameters, res)
         [] handler = "handleGetOffers"         -> handleGetOffers(companyId, parameters, res)
         [] handler = "handleGetCompanyInfo"    -> handleGetCompanyInfo(comps[companyId])
         [] handler = "handleSearchProducts"    -> handleSearchProducts(companyId, parameters, res)
         [] OTHER -> {WebhookFailure("", BadRequest, "Unknown intent")}

\* a webhook route that leaves a marker of the answered company in the cache
Webhook_cached(s, request) ==
  /\ Free(s)
  /\ LET r == [NewReq("webhook", NoPrincipal, request.companyId) EXCEPT !.body = request] IN
     IF request.intent = <<>>
       THEN /\ Respond(s, Done(r, BadRequest, "intent should not be empty"))
            /\ cache' = cache
       ELSE \E out \in handleWebhook(request, companies, resources) :
              /\ Respond(s, [Done(r, out.status, out.msg)
                               EXCEPT !.out = out,
                                      !.trace = IF out.handler = "" THEN <<>> ELSE <<out.handler>>])
              /\ cache' = IF out.status = Created
                            THEN [cache EXCEPT ![getCacheKey(request.companyId)] =
                                    [cached |-> TRUE, company_id |-> request.companyId]]
                            ELSE cache
  /\ UNCHANGED <<companies, nextCompany, resources, nextResource, users>>

\* POST /voiceflow/webhook, @Public: the ValidationPipe wants a non-empty
\* intent, then the service answers; the route has no interceptor
Webhook(s, request) ==
  /\ Free(s)
  /\ LET r == [NewReq("webhook", NoPrincipal, request.companyId) EXCEPT !.body = request] IN
     IF request.intent = <<>>
       THEN Respond(s, Done(r, BadRequest, "intent should not be empty"))
       ELSE \E out \in handleWebhook(request, companies, resources) :
              Respond(s, [Done(r, out.status, out.msg)
                            EXCEPT !.out = out,
                                   !.trace = IF out.handler = "" THEN <<>> ELSE <<out.handler>>])
  /\ UNCHANGED <<companies, nextCompany, resources, nextResource, cache, users>>

\* ------------------------------------------ UsersService and AuthService
\* SUPERADMIN_SECRET_KEY when it is configured; a key that is not
\* configured reads ""
SecretKey == "secret"

\* findById(id) finds a user
UserExists(us, id) == id \in AccountIds /\ us[id].exists

\* findOne({ email })
findByEmail(us, email) == {u \in AccountIds : us[u].exists /\ us[u].email = email}

\* find({ role })
findByRole(us, role) == {u \in AccountIds : us[u].exists /\ us[u].role = role}

\* the id the next saved document gets
FreshAccounts(us) == {u \in AccountIds : us[u] = NoDoc}
NextAccount(us)   == CHOOSE u \in FreshAccounts(us) : TRUE

\* findByIdAndUpdate(id, dto): the fields the dto carries are set
UpdatedUser(doc, dto) == [f \in DOMAIN doc |-> IF f \in DOMAIN dto THEN dto[f] ELSE doc[f]]

\* UsersService.create behind POST /users/register, @Public: the role of a
\* registered user is USER
Register(s, email) ==
  /\ Free(s)
  /\ LET r == [NewReq("users.register", NoPrincipal, NoId) EXCEPT !.body = [email |-> email]] IN
     IF findByEmail(users, email) # {}
       THEN /\ Respond(s, Done(r, Conflict, "User with this email already exists"))
            /\ UNCHANGED users
       ELSE /\ FreshAccounts(users) # {}
            /\ users' = [users EXCEPT ![NextAccount(users)] = UserDoc(email, "USER")]
            /\ Respond(s, [Done(r, Created, "") EXCEPT !.trace = <<"write">>])
  /\ UNCHANGED <<companies, nextCompany, resources, nextResource, cache>>

\* AuthService.createSuperadmin up to its first await that a write follows:
\* the key, then findByRole(SUPERADMIN)
CreateSuperadmin(s, email, secretKey) ==
  /\ Free(s)
  /\ LET r == [NewReq("auth.createSuperadmin", NoPrincipal, NoId)
                EXCEPT !.body = [email |-> email, secretKey |-> secretKey]]
     IN
     \E configured \in {"", SecretKey} :
       IF configured = ""
         THEN Respond(s, Done(r, Forbidden, "Superadmin secret key not configured"))
       ELSE IF secretKey # configured
         THEN Respond(s, Done(r, Forbidden, "Invalid secret key"))
       ELSE IF findByRole(users, "SUPERADMIN") # {}
         THEN Respond(s, Done(r, BadRequest, "Superadmin already exists"))
       ELSE Respond(s, [r EXCEPT !.pc = "create", !.trace = <<"findByRole">>])
  /\ UNCHANGED <<companies, nextCompany, resources, nextResource, cache, users>>

\* and then usersService.create with role SUPERADMIN; an email that is
\* taken is a ConflictException, or the unique index's error when it was
\* taken after findOne
CreateSuperadminSave(s) ==
  /\ reqs[s].pc = "create"
  /\ LET r == reqs[s] IN
     IF findByEmail(users, r.body.email) # {}
       THEN /\ \E status \in {Conflict, InternalServerError} :
                 Respond(s, Done(r, status, "User with this email already exists"))
            /\ UNCHANGED users
       ELSE /\ FreshAccounts(users) # {}
            /\ users' = [users EXCEPT ![NextAccount(users)] = UserDoc(r.body.email, "SUPERADMIN")]
            /\ Respond(s, [Done(r, Created, "") EXCEPT !.trace = Append(@, "write")])
  /\ UNCHANGED <<companies, nextCompany, resources, nextResource, cache>>

\* @Roles of the user routes
UserAdminRoles  == {"ADMIN", "SUPERADMIN"}
UserDeleteRoles == {"SUPERADMIN"}

\* PUT /users/:id
UsersUpdate(s, p, id, dto) ==
  /\ Free(s)
  /\ LET r == [NewReq("users.update", p, NoId) EXCEPT !.body = [id |-> id, dto |-> dto]] IN
     IF ~RolesGuard(UserAdminRoles, p)
       THEN /\ Respond(s, Done(r, Forbidden, "Forbidden resource"))
            /\ UNCHANGED users
     ELSE IF ~UserExists(users, id)
       THEN /\ Respond(s, Done(r, NotFound, "User not found"))
            /\ UNCHANGED users
     ELSE /\ users' = [users EXCEPT ![id] = UpdatedUser(@, dto)]
          /\ Respond(s, [Done(r, Ok, "") EXCEPT !.trace = <<"write">>])
  /\ UNCHANGED <<companies, nextCompany, resources, nextResource, cache>>

\* DELETE /users/:id
UsersDelete(s, p, id) ==
  /\ Free(s)
  /\ LET r == [NewReq("users.delete", p, NoId) EXCEPT !.body = [id |-> id]] IN
     IF ~RolesGuard(UserDeleteRoles, p)
       THEN /\ Respond(s, Done(r, Forbidden, "Forbidden resource"))
            /\ UNCHANGED users
     ELSE IF ~UserExists(users, id)
       THEN /\ Respond(s, Done(r, NotFound, "User not found"))
            /\ UNCHANGED users
     ELSE IF users[id].role = "SUPERADMIN"
       THEN /\ Respond(s, Done(r, Forbidden, "Cannot delete superadmin user"))
            /\ UNCHANGED users
     ELSE /\ users' = [users EXCEPT ![id] = [exists |-> FALSE, deleted |-> TRUE]]
          /\ Respond(s, [Done(r, NoContent, "") EXCEPT !.trace = <<"write">>])
  /\ UNCHANGED <<companies, nextCompany, resources, nextResource, cache>>

\* PUT /users/:id/deactivate
UsersDeactivate(s, p, id) ==
  /\ Free(s)
  /\ LET r == [NewReq("users.deactivate", p, NoId) EXCEPT !.body = [id |-> id]] IN
     IF ~RolesGuard(UserAdminRoles, p)
       THEN /\ Respond(s, Done(r, Forbidden, "Forbidden resource"))
            /\ UNCHANGED users
     ELSE IF ~UserExists(users, id)
       THEN /\ Respond(s, Done(r, NotFound, "User not found"))
            /\ UNCHANGED users
     ELSE IF users[id].role = "SUPERADMIN"
       THEN /\ Respond(s, Done(r, Forbidden, "Cannot deactivate superadmin user"))
            /\ UNCHANGED users
     ELSE /\ users' = [users EXCEPT ![id].isActive = FALSE]
          /\ Respond(s, [Done(r, Ok, "") EXCEPT !.trace = <<"write">>])
  /\ UNCHANGED <<companies, nextCompany, resources, nextResource, cache>>

\* ------------------------------------------------------- specifications
CompanyIdInputs  == CompanyIds \cup {BadId}
ResourceIdInputs == ResourceIds \cup {BadId}
UserIdInputs     == UserIds \cup {GhostUser}

\* the callers of Spec: a USER, and a second account seen with the ADMIN and
\* with the SUPERADMIN role
Callers ==
  { [userId |-> "u1", role |-> "USER"],
    [userId |-> "u2", role |-> "ADMIN"],
    [userId |-> "u2", role |-> "SUPERADMIN"] }

\* Spec: company management on an empty database
Next ==
  \E p \in Callers, cid \in CompanyIdInputs :
    \/ \E u \in UserIdInputs, n \in Names : CompaniesCreate(1, p, u, n)
    \/ CompaniesFindAll(1, p)
    \/ CompaniesFindOne(1, p, cid)
    \/ \E n \in Names : CompaniesUpdate(1, p, cid, n)
    \/ \E u \in UserIdInputs : CompaniesAddMember(1, p, cid, u)
    \/ \E u \in UserIdInputs : CompaniesRemoveMember(1, p, cid, u)
    \/ CompaniesDelete(1, p, cid)

Spec == Init /\ [][Next]_vars

\* SpecAccess: one company, owned by u1, whose membership changes while
\* principals read and create its resources
InitAccess ==
  /\ companies = [c \in CompanyIds |-> IF c = 1 THEN NewCompany("u1", 1) ELSE NoDoc]
  /\ nextCompany = 2
  /\ resources = [k \in Kinds |-> [i \in ResourceIds |-> NoDoc]]
  /\ nextResource = [k \in Kinds |-> 1]
  /\ cache = [k \in CacheKeys |-> NoView]
  /\ reqs = [s \in Slots |-> IdleReq]
  /\ users = RegisteredUsers

AccessCallers == Callers \cup {[userId |-> "u2", role |-> "USER"]}

\* the company, the id of no company, and a malformed id
AccessIds == {1, nextCompany, BadId}

NextAccess ==
  \/ \E p \in AccessCallers, cid \in AccessIds :
       \/ CompaniesAddMember(1, p, cid, "u2")
       \/ CompaniesRemoveMember(1, p, cid, "u2")
       \/ ResCreate(1, p, cid, "products", 1)
       \/ \E k \in Kinds : ResFindAll(1, p, cid, k)
       \/ \E rid \in {1, BadId} : ResFindOne(1, p, cid, "products", rid)
       \/ PreviewScript(1, p, cid)
       \/ ScriptRead(1, p, cid)
  \/ ResIndex(1)
  \/ ResInvalidate(1)
  \/ ScriptBuild(1)
  \/ ScriptStore(1)
  \/ \E key \in CacheKeys : CacheExpire(key)

SpecAccess == InitAccess /\ [][NextAccess]_vars

\* SpecRes: the owner u1 and a stranger create, update and remove
\* resources of the three kinds and read the cached script
ResPrincipals == [userId : UserIds, role : {"USER"}]

NextRes ==
  \/ \E p \in ResPrincipals, cid \in CompanyIds, k \in Kinds :
       \/ ResCreate(1, p, cid, k, 1)
       \/ \E rid \in ResourceIdInputs : ResUpdate(1, p, cid, k, rid, 1)
       \/ \E rid \in ResourceIdInputs : ResRemove(1, p, cid, k, rid)
       \/ ScriptRead(1, p, cid)
  \/ ResIndex(1)
  \/ ResInvalidate(1)
  \/ ScriptBuild(1)
  \/ ScriptStore(1)
  \/ \E key \in CacheKeys : CacheExpire(key)

SpecRes == InitAccess /\ [][NextRes]_vars

\* SpecRace: a reader of company 1's cached script in slot 1 and a writer
\* of its products and offers in slot 2, their steps interleaved
NextRace ==
  \/ \E p \in ResPrincipals : ScriptRead(1, p, 1)
  \/ ScriptBuild(1)
  \/ ScriptStore(1)
  \/ \E p \in ResPrincipals, k \in {"products", "offers"} : ResCreate(2, p, 1, k, 1)
  \/ ResIndex(2)
  \/ ResInvalidate(2)
  \/ CacheExpire(ScriptUrlKey(1))

SpecRace == InitAccess /\ [][NextRace]_vars

\* SpecCache: invalidateCompanyScript called on any cache: every key holds a
\* script or nothing
SampleView(cid) ==
  mapCompanyToVoiceflow(NewCompany("u1", 1), [k \in Kinds |-> [i \in ResourceIds |-> NoDoc]], cid)

InitCache ==
  /\ companies = [c \in CompanyIds |-> IF c = 1 THEN NewCompany("u1", 1) ELSE NoDoc]
  /\ nextCompany = 2
  /\ resources = [k \in Kinds |-> [i \in ResourceIds |-> NoDoc]]
  /\ nextResource = [k \in Kinds |-> 1]
  /\ \E held \in SUBSET CacheKeys :
       cache = [k \in CacheKeys |-> IF k \in held THEN SampleView(k[2]) ELSE NoView]
  /\ reqs = [s \in Slots |-> IdleReq]
  /\ users = RegisteredUsers

\* a call of invalidateCompanyScript(companyId) on its own
Invalidate(s, cid) ==
  /\ Free(s)
  /\ LET r == [NewReq("invalidate", NoPrincipal, cid) EXCEPT !.trace = <<"invalidate">>] IN
     \E delOk \in BOOLEAN :
       IF delOk
         THEN /\ cache' = invalidateCompanyScript(cache, cid)
              /\ Respond(s, Done(r, Ok, ""))
         ELSE /\ cache' = cache
              /\ Respond(s, Done(r, InternalServerError, "cache del failed"))
  /\ UNCHANGED <<companies, nextCompany, resources, nextResource, users>>

NextCache == \E cid \in CompanyIdInputs : Invalidate(1, cid)

SpecCache == InitCache /\ [][NextCache]_vars

\* SpecLife: companies are created and deleted while resources are created
\* and removed under them
NextLife ==
  \/ \E p \in Callers, cid \in CompanyIds :
       \/ \E u \in UserIds : CompaniesCreate(1, p, u, 1)
       \/ CompaniesDelete(1, p, cid)
       \/ \E k \in Kinds : ResCreate(1, p, cid, k, 1)
       \/ \E k \in Kinds, rid \in ResourceIds : ResRemove(1, p, cid, k, rid)
  \/ ResIndex(1)
  \/ ResInvalidate(1)

SpecLife == Init /\ [][NextLife]_vars

\* SpecView: company 1 with any number of products and projects and with
\* offers of any discounts (an offer's name field stands for its discount);
\* the owner and a SUPERADMIN preview the script, the SUPERADMIN removes
\* products and offers
NewDoc(cid, name) == [exists |-> TRUE, companyId |-> cid, name |-> name]

Discounts == UNION {[1..n -> Names] : n \in 0..MaxResources}

InitView ==
  \E np \in 0..MaxResources, nj \in 0..MaxResources, ds \in Discounts :
    LET n == [k \in Kinds |-> CASE k = "products" -> np
                                [] k = "projects" -> nj
                                [] OTHER          -> Len(ds)]
    IN
    /\ companies = [c \in CompanyIds |->
                      IF c = 1 THEN [NewCompany("u1", 1) EXCEPT
                                       !.index = [k \in Kinds |-> 1..n[k]]]
                      ELSE NoDoc]
    /\ nextCompany = 2
    /\ resources = [k \in Kinds |-> [i \in ResourceIds |->
                      IF i > n[k] THEN NoDoc
                      ELSE NewDoc(1, IF k = "offers" THEN ds[i] ELSE 1)]]
    /\ nextResource = [k \in Kinds |-> n[k] + 1]
    /\ cache = [k \in CacheKeys |-> NoView]
    /\ reqs = [s \in Slots |-> IdleReq]
    /\ users = RegisteredUsers

ViewCallers ==
  { [userId |-> "u1", role |-> "USER"], [userId |-> "u2", role |-> "SUPERADMIN"] }

NextView ==
  \/ \E p \in ViewCallers : PreviewScript(1, p, 1)
  \/ \E k \in {"products", "offers"}, rid \in ResourceIds :
       ResRemove(1, [userId |-> "u2", role |-> "SUPERADMIN"], 1, k, rid)
  \/ ResIndex(1)
  \/ ResInvalidate(1)

SpecView == InitView /\ [][NextView]_vars

\* SpecIntent: the public webhook is asked about company 1, about the id of
\* no company and about a malformed id.  Company 1 has a project and two
\* offers; the products are any of a few, some of them left behind by a
\* company that is no more.
ProductDoc(cid, name, description, price) ==
  [exists |-> TRUE, companyId |-> cid, name |-> name,
   description |-> description, price |-> price]

IntentProducts ==
  {ProductDoc(1, <<"L", "a", "p">>, <<"b", "i", "g">>, 1),
   ProductDoc(1, <<"P", "a", "d">>, <<"p", "e", "n">>, 2),
   ProductDoc(2, <<"L", "a", "p">>, <<"b", "i", "g">>, 1)}

InitIntent ==
  \E ps \in [ResourceIds -> {NoDoc} \cup IntentProducts] :
    /\ resources = [k \in Kinds |->
                      CASE k = "products" -> ps
                        [] k = "projects" -> [i \in ResourceIds |-> IF i = 1 THEN NewDoc(1, 1) ELSE NoDoc]
                        [] OTHER          -> [i \in ResourceIds |-> IF i <= 2 THEN NewDoc(1, i) ELSE NoDoc]]
    /\ nextResource = [k \in Kinds |->
                         CASE k = "products" -> MaxResources + 1
                           [] k = "projects" -> 2
                           [] OTHER          -> 3]
    /\ companies = [c \in CompanyIds |->
                      IF c = 1
                        THEN [NewCompany("u1", 1) EXCEPT
                                !.index = [k \in Kinds |->
                                  CASE k = "products" ->
                                         {i \in ResourceIds : ps[i] # NoDoc /\ ps[i].companyId = 1}
                                    [] k = "projects" -> {1}
                                    [] OTHER          -> {1, 2}]]
                        ELSE NoDoc]
    /\ nextCompany = 2
    /\ cache = [k \in CacheKeys |-> IF k = ScriptUrlKey(1) THEN SampleView(1) ELSE NoView]
    /\ reqs = [s \in Slots |-> IdleReq]
    /\ users = RegisteredUsers

\* the letter cases an intent is sent in
Capitalise(str) == [i \in DOMAIN str |-> IF i = 1 THEN toUpperChar(str[i]) ELSE str[i]]

\* strings that are no alias: another word, a part of an alias, an alias
\* without its underscore and one with a blank behind it
UnknownIntents ==
  {<<"f", "o", "o", "_", "b", "a", "r">>, Get \o Underscore \o Product, Products,
   Get \o Products, Get \o Underscore \o Products \o <<" ">>}

\* every alias as the switch spells it, in capitals and capitalised
IntentInputs ==
  UNION { {a, toUpperCase(a), Capitalise(a)} :
            a \in ProductsAliases \cup ProductDetailsAliases \cup ProjectsAliases
                  \cup OffersAliases \cup CompanyInfoAliases \cup SearchProductsAliases }
  \cup UnknownIntents \cup {<<>>}

\* a word of a name in another letter case, a word of a description, a
\* word of no product, a letter of both names, a wildcard, an unclosed
\* group, the empty string, and no value
QueryInputs ==
  {Str(<<"l", "a", "p">>), Str(<<"B", "I", "G">>), Str(<<"z", "z", "z">>), Str(<<"a">>),
   Str(<<"l", ".", "p">>), Str(<<"(">>), Str(<<>>), Undefined}

\* an alias of every handler, the strings that are no alias and the empty
\* string
IntentSample ==
  {toUpperCase(Show \o Underscore \o Products), Product \o Underscore \o Info,
   Capitalise(List \o Underscore \o Projects), toUpperCase(Show \o Underscore \o Deals),
   Company \o Underscore \o Details, Search \o Underscore \o Products}
  \cup UnknownIntents \cup {<<>>}

WebhookRequests ==
  {[intent |-> i, companyId |-> 1, parameters |-> NoParameters] : i \in IntentInputs}
  \cup {[intent |-> i, companyId |-> c, parameters |-> NoParameters] :
          i \in IntentSample, c \in {2, BadId}}
  \cup {[intent |-> i, companyId |-> 1, parameters |-> [NoParameters EXCEPT !.limit = l]] :
          i \in {Get \o Underscore \o Products, toUpperCase(List \o Underscore \o Projects)},
          l \in {Undefined} \cup {Num(n) : n \in 0..(MaxResources + 1)}}
  \cup {[intent |-> Search \o Underscore \o Products, companyId |-> 1,
         parameters |-> [NoParameters EXCEPT !.query = q, !.search = w]] :
          q \in QueryInputs, w \in {Undefined, Str(<<"p", "e", "n">>)}}
  \cup {[intent |-> Product \o Underscore \o Info, companyId |-> 1,
         parameters |-> [NoParameters EXCEPT !.productName = q, !.name = w]] :
          q \in QueryInputs, w \in {Undefined, Str(<<"p", "a", "d">>)}}

NextIntent == \E request \in WebhookRequests : Webhook(1, request)

SpecIntent == InitIntent /\ [][NextIntent]_vars


\* SpecUsers: on an empty database users register, superadmins are created
\* by two requests at a time, and the logged-in users with a role for it
\* update, delete and deactivate users
InitUsers ==
  /\ companies = [c \in CompanyIds |-> NoDoc]
  /\ nextCompany = 1
  /\ resources = [k \in Kinds |-> [i \in ResourceIds |-> NoDoc]]
  /\ nextResource = [k \in Kinds |-> 1]
  /\ cache = [k \in CacheKeys |-> NoView]
  /\ reqs = [s \in Slots |-> IdleReq]
  /\ users = [u \in AccountIds |-> NoDoc]

\* AuthService.login: the token of an active user carries the user's role
LoggedIn(us) ==
  {[userId |-> u, role |-> us[u].role] : u \in {a \in AccountIds : us[a].exists /\ us[a].isActive}}

UpdateUserDtos == {[role |-> role] : role \in Roles} \cup {[isActive |-> b] : b \in BOOLEAN}

NextUsers ==
  \/ \E email \in {"a@x", "b@x"} : Register(1, email)
  \/ \E s \in Slots, key \in {SecretKey, "wrong"} :
       CreateSuperadmin(s, IF s = 1 THEN "a@x" ELSE "b@x", key)
  \/ \E s \in Slots : CreateSuperadminSave(s)
  \/ \E p \in LoggedIn(users), id \in AccountIds \cup {GhostUser} :
       \/ \E dto \in UpdateUserDtos : UsersUpdate(1, p, id, dto)
       \/ UsersDelete(1, p, id)
       \/ UsersDeactivate(1, p, id)

SpecUsers == InitUsers /\ [][NextUsers]_vars

\* ----------------------------------------------------------------- claims
\* the response that the step just taken put into slot s
Answered(s) == reqs'[s] # reqs[s] /\ reqs'[s].pc = "done"

Existing(cid) == cid \in CompanyIds /\ companies[cid] # NoDoc

IsOwner(p, cid)  == companies[cid].ownerId = p.userId
IsMember(p, cid) == p.userId \in companies[cid].members

ManageOps == {"companies.update", "companies.addMember", "companies.removeMember"}

ProductsOf(cid) ==
  {i \in ResourceIds : resources["products"][i] # NoDoc
                       /\ resources["products"][i].companyId = cid}

ReadOps == {"findAll", "findOne", "preview", "script"}

\* owner, member or SUPERADMIN
Entitled(p, cid) == p.role = "SUPERADMIN" \/ IsOwner(p, cid) \/ IsMember(p, cid)

\* C1: on an existing company the guard admits a principal exactly when
\* it is SUPERADMIN, the owner or a member, and every company-scoped read
\* (list, get, script, preview) is refused with 403 exactly when the guard
\* does not admit.
C1_ReadIffEntitled ==
  /\ \A p \in Principals, c \in CompanyIds :
       companies[c] # NoDoc => (canActivate(p, c, companies).allow <=> Entitled(p, c))
  /\ \A s \in Slots :
       (reqs[s].pc = "done" /\ reqs[s].op \in ReadOps /\ Existing(reqs[s].cid)) =>
         (reqs[s].status = Ok \/ reqs[s].status = NotFound <=> Entitled(reqs[s].p, reqs[s].cid))
         /\ (reqs[s].status = Forbidden <=> ~Entitled(reqs[s].p, reqs[s].cid))

\* an ADMIN with no relation to the company was refused its script after
\* the company got its first product
C1_Witness ==
  \E s \in Slots :
    /\ reqs[s].pc = "done" /\ reqs[s].op = "script" /\ Existing(reqs[s].cid)
    /\ reqs[s].p.role = "ADMIN" /\ reqs[s].status = Forbidden
    /\ ~IsOwner(reqs[s].p, reqs[s].cid) /\ ~IsMember(reqs[s].p, reqs[s].cid)
    /\ ProductsOf(reqs[s].cid) # {}

\* a request was received in a free slot and its guard has run
Received(s) == Free(s) /\ reqs'[s] # reqs[s]

\* C4: whatever happened before, a USER's request to list or create the
\* products of an existing company is admitted exactly when the USER is
\* at that moment the owner or a member; an admitted listing returns all
\* products of the company; a successful addMember or removeMember changes
\* nothing of the company but its members.
C4_AccessFollowsMembership ==
  [][\A s \in Slots :
       /\ (Received(s) /\ reqs'[s].kind = "products" /\ reqs'[s].op \in {"findAll", "create"}
             /\ reqs'[s].p.role = "USER" /\ Existing(reqs'[s].cid)) =>
            LET r == reqs'[s]
                now == IsOwner(r.p, r.cid) \/ IsMember(r.p, r.cid)
            IN /\ (~now => r.pc = "done" /\ r.status = Forbidden
                           /\ resources' = resources)
               /\ (now /\ r.op = "findAll" =>
                     r.pc = "done" /\ r.status = Ok /\ r.ids = ProductsOf(r.cid))
               /\ (now /\ r.op = "create" =>
                     r.pc = "index" \/ CreatedSoFar(nextResource) >= MaxResources)
       /\ (Answered(s) /\ reqs'[s].op \in {"companies.addMember", "companies.removeMember"}
             /\ reqs'[s].status = Ok) =>
            \E u \in UserIds :
              companies' = [companies EXCEPT ![reqs'[s].cid].members =
                              IF reqs'[s].op = "companies.addMember"
                                THEN @ \cup {u} ELSE @ \ {u}]]_vars

\* a USER who is a member, not the owner, listed the company's products
\* and got both of them
C4_Witness ==
  \E s \in Slots :
    /\ reqs[s].pc = "done" /\ reqs[s].op = "findAll" /\ reqs[s].kind = "products"
    /\ reqs[s].p.role = "USER" /\ Existing(reqs[s].cid)
    /\ ~IsOwner(reqs[s].p, reqs[s].cid) /\ IsMember(reqs[s].p, reqs[s].cid)
    /\ reqs[s].status = Ok /\ Cardinality(reqs[s].ids) = 2

\* C5: a company-scoped read answers a malformed company id with 400, a
\* well-formed id of no company with 404 and an existing company the
\* principal may not access with 403.
C5_ThreeOutcomes ==
  \A s \in Slots :
    (reqs[s].pc = "done" /\ reqs[s].op \in ReadOps) =>
      LET r == reqs[s] IN
      /\ (~ObjectIdIsValid(r.cid) => r.status = BadRequest)
      /\ (ObjectIdIsValid(r.cid) /\ companies[r.cid] = NoDoc => r.status = NotFound)
      /\ (Existing(r.cid) /\ ~Entitled(r.p, r.cid) => r.status = Forbidden)

MutationOps == {"create", "update", "remove"}

Succeeded(r) == r.pc = "done" /\ r.status = SuccessStatus(r.op)

\* C7: the step with which create, update or remove of a product, project
\* or offer reports success is the call of invalidateCompanyScript for the
\* request's company; the document write (and, for create and remove, the
\* update of the company's id array) is already in the store when it runs,
\* and it writes nothing more.
C7_WriteThenInvalidate ==
  [][\A s \in Slots :
       (Answered(s) /\ reqs'[s].op \in MutationOps /\ Succeeded(reqs'[s])) =>
         LET r == reqs'[s] IN
         /\ reqs[s].pc = "invalidate"
         /\ cache'[getCacheKey(r.cid)] = NoView
         /\ r.trace = IF r.op = "update" THEN <<"write", "invalidate">>
                      ELSE <<"write", "index", "invalidate">>
         /\ resources' = resources /\ companies' = companies
         /\ (r.op = "create" => /\ resources[r.kind][r.rid] # NoDoc
                                /\ resources[r.kind][r.rid].companyId = r.cid
                                /\ (Existing(r.cid) => r.rid \in companies[r.cid].index[r.kind]))
         /\ (r.op = "update" => resources[r.kind][r.rid] # NoDoc)
         /\ (r.op = "remove" => /\ resources[r.kind][r.rid] = NoDoc
                                /\ (Existing(r.cid) => r.rid \notin companies[r.cid].index[r.kind]))]_vars

\* the removal of a product has reported success
C7_Witness ==
  \E s \in Slots :
    /\ reqs[s].op = "remove" /\ reqs[s].kind = "products" /\ Succeeded(reqs[s])
    /\ reqs[s].trace = <<"write", "index", "invalidate">>

\* C8: every successful addMember and removeMember has called the
\* invalidation of the company's cached script before it answers.
C8_MembershipInvalidates ==
  \A s \in Slots :
    (reqs[s].pc = "done" /\ reqs[s].status = Ok
       /\ reqs[s].op \in {"companies.addMember", "companies.removeMember"}) =>
      \E i \in DOMAIN reqs[s].trace : reqs[s].trace[i] = "invalidate"

\* C9: a mutation whose cache delete failed still reports success.
C9_InvalidationFailureSwallowed ==
  [][\A s \in Slots :
       (reqs[s].pc = "invalidate" /\ reqs'[s].pc = "done") => Succeeded(reqs'[s])]_vars

\* C10: the script read that follows a successful create of a product under
\* the same company is not answered with the view cached before the create:
\* what it returns counts the company's products as they are in the store.
C10_CreateInvalidatesView ==
  [][\A s \in Slots :
       (reqs[s].op = "create" /\ reqs[s].kind = "products" /\ Succeeded(reqs[s])
          /\ reqs'[s].op = "script" /\ reqs'[s].cid = reqs[s].cid
          /\ reqs'[s].pc = "done" /\ reqs'[s].status = Ok) =>
         reqs'[s].view.total_products = Cardinality(ProductsOf(reqs[s].cid))]_vars

\* C11: a cached view of a company, present once the create of the
\* company's n-th product has completed its invalidation, was read from the
\* store after that invalidation and so after the write before it: it counts
\* at least n products (in SpecRace products are only created, and the n-th
\* has id n).
C11_CachedViewReadAfterInvalidation ==
  \A t \in Slots :
    (reqs[t].op = "create" /\ reqs[t].kind = "products" /\ Succeeded(reqs[t])
       /\ cache[ScriptUrlKey(reqs[t].cid)] # NoView) =>
      cache[ScriptUrlKey(reqs[t].cid)].total_products >= reqs[t].rid

\* C12: on every cache and for every company id, invalidating twice gives
\* the cache that invalidating once gives, and invalidating leaves every
\* key that is not the company's own as it was.
C12_InvalidateIdempotent ==
  \A cid \in CompanyIdInputs :
    LET once == invalidateCompanyScript(cache, cid) IN
    /\ invalidateCompanyScript(once, cid) = once
    /\ \A c \in CompanyIdInputs \ {cid} :
         /\ once[getCacheKey(c)] = cache[getCacheKey(c)]
         /\ once[ScriptUrlKey(c)] = cache[ScriptUrlKey(c)]

\* company 1 was invalidated, its key is empty, and company 2's key still
\* holds its script
C12_Witness ==
  \E s \in Slots :
    /\ reqs[s].op = "invalidate" /\ reqs[s].cid = 1 /\ reqs[s].status = Ok
    /\ cache[getCacheKey(1)] = NoView
    /\ cache[getCacheKey(2)] # NoView

\* C13: a preview leaves the cache as it was, and the view it returns is
\* the one generateScript builds from the store at that moment, whatever the
\* cache holds.
C13_PreviewBypassesCache ==
  [][\A s \in Slots :
       (Answered(s) /\ reqs'[s].op = "preview") =>
         /\ cache' = cache
         /\ (reqs'[s].status = Ok =>
               /\ reqs'[s].view = generateScript(reqs'[s].cid, companies, resources)
               /\ reqs'[s].trace = <<"build">>)
         /\ (reqs'[s].status # Ok => reqs'[s].view = NoView)]_vars

\* a preview showed one product while the cache holds the company's script
\* with none
C13_Witness ==
  \E s \in Slots :
    /\ reqs[s].op = "preview" /\ reqs[s].pc = "done" /\ reqs[s].status = Ok
    /\ reqs[s].view.total_products = 1
    /\ cache[ScriptUrlKey(reqs[s].cid)] # NoView
    /\ cache[ScriptUrlKey(reqs[s].cid)].total_products = 0

\* C14: a script read of an existing company by a principal who is not
\* SUPERADMIN, owner or member is answered 403 at once and carries no view,
\* whatever the cache holds.
C14_GuardBeforeCache ==
  [][\A s \in Slots :
       (Received(s) /\ reqs'[s].op = "script" /\ Existing(reqs'[s].cid)
          /\ ~Entitled(reqs'[s].p, reqs'[s].cid)) =>
         /\ reqs'[s].pc = "done" /\ reqs'[s].status = Forbidden
         /\ reqs'[s].view = NoView
         /\ cache' = cache]_vars

\* a stranger was refused the script of a company whose script is cached
C14_Witness ==
  \E s \in Slots :
    /\ reqs[s].op = "script" /\ reqs[s].pc = "done" /\ reqs[s].status = Forbidden
    /\ Existing(reqs[s].cid) /\ ~Entitled(reqs[s].p, reqs[s].cid)
    /\ cache[ScriptUrlKey(reqs[s].cid)] # NoView

\* C15: every product, project and offer in the store has the id of an
\* existing company as its companyId.
C15_ResourcesReferenceCompanies ==
  \A k \in Kinds, i \in ResourceIds :
    resources[k][i] # NoDoc => Existing(resources[k][i].companyId)

\* C16: no step changes the ownerId of a company that stays in the store,
\* and after every step the owner of a company is not among its members.
C16_OwnerFixedAndNotMember ==
  [][\A c \in CompanyIds :
       companies'[c] # NoDoc =>
         /\ (companies[c] # NoDoc => companies'[c].ownerId = companies[c].ownerId)
         /\ companies'[c].ownerId \notin companies'[c].members]_vars

\* C17: the company that a create request has stored has the id of the
\* request's authenticated principal as its ownerId.
C17_OwnerIsCreator ==
  [][\A s \in Slots :
       (Answered(s) /\ reqs'[s].op = "companies.create" /\ reqs'[s].status = Created) =>
         companies'[reqs'[s].cid].ownerId = reqs'[s].p.userId]_vars

\* C18: for a malformed id and for the id of no company generateScript
\* throws NotFound and queries no resource collection; for an existing
\* company it returns a view with that company_id and version 'v1'.  A
\* SUPERADMIN, whom the guard lets through with any id, sees exactly this as
\* 404 or 200 on the preview route.
C18_BuildNotFoundOrView ==
  /\ \A cid \in CompanyIdInputs :
       LET v == generateScript(cid, companies, resources) IN
       IF ~Existing(cid)
         THEN v = NoView /\ collectionsRead(cid, companies) \cap Kinds = {}
         ELSE v # NoView /\ v.company_id = cid /\ v.version = "v1"
  /\ \A s \in Slots :
       (reqs[s].pc = "done" /\ reqs[s].op = "preview" /\ reqs[s].p.role = "SUPERADMIN") =>
         IF Existing(reqs[s].cid)
           THEN reqs[s].status = Ok /\ reqs[s].view.company_id = reqs[s].cid
           ELSE reqs[s].status = NotFound /\ reqs[s].view = NoView

\* a SUPERADMIN's preview with a malformed id was answered 404
C18_Witness ==
  \E s \in Slots :
    /\ reqs[s].pc = "done" /\ reqs[s].op = "preview" /\ reqs[s].cid = BadId
    /\ reqs[s].p.role = "SUPERADMIN" /\ reqs[s].status = NotFound

\* the documents of kind k that company cid has in the store
CountOf(k, cid) ==
  Cardinality({i \in ResourceIds : resources[k][i] # NoDoc
                                   /\ resources[k][i].companyId = cid})

\* the lines of `order` that are in `present`, in the order of `order`
Subsequence(order, present) ==
  LET Kept(l) == l \in present IN SelectSeq(order, Kept)

\* a count line without its singular or plural wording
Wording(l) ==
  CASE l = "product_count_plural" -> "product_count"
    [] l = "project_count_plural" -> "project_count"
    [] l = "offer_count_plural"   -> "offer_count"
    [] OTHER                      -> l

LinesAsBuilt ==
  <<"welcome", "contact",
    "product_count", "product_first", "product_second", "product_inquiry",
    "catalog_updating",
    "project_count", "project_first",
    "offer_count", "offer_top", "offer_second", "offer_deals",
    "closing">>

LinesAsClaimed ==
  <<"welcome", "contact",
    "product_count", "product_first", "product_second",
    "project_first",
    "offer_top", "offer_second",
    "closing">>

\* the script a request returned, with a principal admitted and the company found
Returned(s) ==
  /\ reqs[s].pc = "done" /\ reqs[s].op \in {"preview", "script"} /\ reqs[s].status = Ok

\* C19 as amended: the responses are, in this order, a welcome and a contact
\* line; with products a product-count line (plural wording from two on),
\* a first-product line, from two products on a second-product line, and a
\* product-inquiry line, but without products one line saying that the
\* catalog is being updated; with projects a project-count line and a
\* first-project line; with offers an offer-count line, a top-offer line,
\* from two offers on a second-offer line, and a limited-time-deals line;
\* and a closing line last.
C19_ResponsesAsBuilt ==
  \A s \in Slots :
    Returned(s) =>
      LET np == CountOf("products", reqs[s].cid)
          nj == CountOf("projects", reqs[s].cid)
          no == CountOf("offers", reqs[s].cid)
          present ==
            {"welcome", "contact", "closing"}
            \cup (IF np = 0 THEN {"catalog_updating"}
                            ELSE {"product_count", "product_first", "product_inquiry"})
            \cup (IF np > 1 THEN {"product_second"} ELSE {})
            \cup (IF nj > 0 THEN {"project_count", "project_first"} ELSE {})
            \cup (IF no > 0 THEN {"offer_count", "offer_top", "offer_deals"} ELSE {})
            \cup (IF no > 1 THEN {"offer_second"} ELSE {})
          lines == reqs[s].view.responses
      IN
      /\ [i \in DOMAIN lines |-> Wording(lines[i])] = Subsequence(LinesAsBuilt, present)
      /\ \A i \in DOMAIN lines :
           /\ lines[i] = "product_count_plural" => np > 1
           /\ lines[i] = "product_count" => np = 1
           /\ lines[i] = "project_count_plural" => nj > 1
           /\ lines[i] = "project_count" => nj = 1
           /\ lines[i] = "offer_count_plural" => no > 1
           /\ lines[i] = "offer_count" => no = 1

\* a preview of a company with no product, one project and two offers
C19_Witness ==
  \E s \in Slots :
    /\ Returned(s) /\ reqs[s].op = "preview"
    /\ CountOf("products", reqs[s].cid) = 0
    /\ CountOf("projects", reqs[s].cid) = 1
    /\ CountOf("offers", reqs[s].cid) = 2
    /\ Len(reqs[s].view.responses) = 10

\* C19 as stated: welcome, contact; product-count, first-product and
\* second-product lines only with products; one first-project line only
\* with projects; top-offer and second-offer lines only with offers; closing
\* last; and nothing else.
C19_ResponsesAsClaimed ==
  \A s \in Slots :
    Returned(s) =>
      LET np == CountOf("products", reqs[s].cid)
          nj == CountOf("projects", reqs[s].cid)
          no == CountOf("offers", reqs[s].cid)
          present ==
            {"welcome", "contact", "closing"}
            \cup (IF np > 0 THEN {"product_count", "product_first"} ELSE {})
            \cup (IF np > 1 THEN {"product_second"} ELSE {})
            \cup (IF nj > 0 THEN {"project_first"} ELSE {})
            \cup (IF no > 0 THEN {"offer_top"} ELSE {})
            \cup (IF no > 1 THEN {"offer_second"} ELSE {})
          lines == reqs[s].view.responses
      IN [i \in DOMAIN lines |-> Wording(lines[i])] = Subsequence(LinesAsClaimed, present)

\* C20: in a returned script the offers are in descending order of
\* discount (an offer's name field stands for its discount), so that
\* offers[0], the offer of the top-offer line, has a maximal discount.
C20_OffersByDiscount ==
  \A s \in Slots :
    Returned(s) =>
      \A i, j \in DOMAIN reqs[s].view.offers :
        i < j => reqs[s].view.offers[i] >= reqs[s].view.offers[j]

\* the webhook request answered in slot s
Handled(s) == reqs[s].pc = "done" /\ reqs[s].op = "webhook"

\* what the company check of the intent handler comes to for a response
CompanyChecked(cid, intent, status, handler) ==
  /\ ~ObjectIdIsValid(cid) => status = BadRequest /\ handler = ""
  /\ (ObjectIdIsValid(cid) /\ ~Existing(cid)) => status = NotFound /\ handler = ""
  /\ handler # "" => Existing(cid)

\* C21: the intent handler checks the company before the intent: whatever
\* the intent string, an id that is no ObjectId is answered 400 and a
\* well-formed id of no company 404, and an intent handler runs only for an
\* existing company.  The empty intent never reaches the handler through the
\* route (the ValidationPipe refuses it), so for it the handler's own
\* answers are looked at.
C21_CompanyBeforeIntent ==
  /\ \A s \in Slots :
       (Handled(s) /\ reqs[s].body.intent # <<>>) =>
         /\ CompanyChecked(reqs[s].cid, reqs[s].body.intent, reqs[s].status, reqs[s].out.handler)
         /\ reqs[s].trace = IF reqs[s].out.handler = "" THEN <<>> ELSE <<reqs[s].out.handler>>
  /\ \A c \in {1, 2, BadId} :
       \A out \in handleWebhook([NoBody EXCEPT !.companyId = c], companies, resources) :
         CompanyChecked(c, <<>>, out.status, out.handler)

\* an intent that is no alias, sent with a well-formed id of no company, was
\* answered 404
C21_Witness ==
  \E s \in Slots :
    /\ Handled(s) /\ reqs[s].body.intent \in UnknownIntents
    /\ ObjectIdIsValid(reqs[s].cid) /\ ~Existing(reqs[s].cid)
    /\ reqs[s].status = NotFound

\* str is the alias in some letter case
SameLetters(alias, str) ==
  /\ Len(alias) = Len(str)
  /\ \A i \in DOMAIN alias : str[i] \in {alias[i], toUpperChar(alias[i])}

\* the handler of the canonical tag the alias table of the specification
\* gives an intent, or "default"
CanonicalHandler(str) ==
  CASE \E a \in ProductsAliases : SameLetters(a, str)       -> "handleGetProducts"
    [] \E a \in ProductDetailsAliases : SameLetters(a, str) -> "handleGetProductDetails"
    [] \E a \in ProjectsAliases : SameLetters(a, str)       -> "handleGetProjects"
    [] \E a \in OffersAliases : SameLetters(a, str)         -> "handleGetOffers"
    [] \E a \in CompanyInfoAliases : SameLetters(a, str)    -> "handleGetCompanyInfo"
    [] \E a \in SearchProductsAliases : SameLetters(a, str) -> "handleSearchProducts"
    [] OTHER                                                -> "default"

\* C22: for an existing company, an alias in any letter case runs the
\* handler of its canonical tag and no other, and every other intent string
\* is answered 400 with no handler run.
C22_DispatchByAlias ==
  \A s \in Slots :
    (Handled(s) /\ Existing(reqs[s].cid)) =>
      LET h == CanonicalHandler(reqs[s].body.intent) IN
      IF h = "default"
        THEN /\ reqs[s].status = BadRequest /\ reqs[s].trace = <<>>
             /\ reqs[s].body.intent # <<>> => reqs[s].msg = "Unknown intent"
        ELSE reqs[s].trace = <<h>>

\* SHOW_DEALS reached the offers handler
C22_Witness ==
  \E s \in Slots :
    /\ Handled(s) /\ reqs[s].body.intent = toUpperCase(Show \o Underscore \o Deals)
    /\ reqs[s].trace = <<"handleGetOffers">> /\ reqs[s].status = Created

\* C23: a webhook request, answered with success or with an error, leaves
\* the companies, the products, projects and offers and the cache as they
\* were.
C23_WebhookReadsOnly ==
  [][\A s \in Slots :
       (Answered(s) /\ reqs'[s].op = "webhook") =>
         UNCHANGED <<companies, nextCompany, resources, nextResource, cache, users>>]_vars

\* a search was answered from the store while the cache held a script
C23_Witness ==
  \E s \in Slots :
    /\ Handled(s) /\ reqs[s].status = Created
    /\ reqs[s].trace = <<"handleSearchProducts">> /\ reqs[s].out.data.total > 0
    /\ cache[ScriptUrlKey(1)] # NoView

\* C24: GET_PRODUCTS returns min(L, n) products of the requested company
\* for a limit L >= 0 and min(10, n) when no limit is sent, n being the
\* number of the company's products; a non-empty answer's message cites
\* the returned count and the first product's name and price, an empty one
\* is the nothing-available message.
C24_LimitCapsProducts ==
  \A s \in Slots :
    (Handled(s) /\ reqs[s].trace = <<"handleGetProducts">>) =>
      LET L    == reqs[s].body.parameters.limit
          n    == Len(findAll(resources["products"], reqs[s].cid))
          cap  == IF L.t = "number" THEN L.v ELSE DefaultLimit
          data == reqs[s].out.data
          said == reqs[s].out.message
      IN /\ reqs[s].status = Created
         /\ Len(data.products) = IF cap < n THEN cap ELSE n
         /\ \A i \in DOMAIN data.products :
              resources["products"][data.products[i]].companyId = reqs[s].cid
         /\ IF Len(data.products) > 0
              THEN /\ said.count = Len(data.products)
                   /\ said.name = resources["products"][data.products[1]].name
                   /\ said.price = resources["products"][data.products[1]].price
              ELSE said.says = "We don't have any products available right now."

\* word occurs in text, letter case aside
Contains(text, word) ==
  \E k \in 1..(Len(text) - Len(word) + 1) :
    \A i \in DOMAIN word : toLowerChar(word[i]) = toLowerChar(text[k + i - 1])

\* C25: SEARCH_PRODUCTS is answered 400 when neither query nor search has a
\* value; otherwise it succeeds with at most 5 products of the requested
\* company, each containing the query in its name or description, and
\* with an empty list and a "couldn't find" message when there is none.
C25_SearchBySubstring ==
  \A s \in Slots :
    (Handled(s) /\ reqs[s].trace = <<"handleSearchProducts">>) =>
      LET given == reqs[s].body.parameters
          query == IF Truthy(given.query) THEN given.query ELSE given.search
          data  == reqs[s].out.data
      IN IF ~Truthy(given.query) /\ ~Truthy(given.search)
           THEN reqs[s].status = BadRequest
           ELSE /\ reqs[s].status = Created
                /\ Len(data.products) <= SearchLimit
                /\ \A i \in DOMAIN data.products :
                     LET doc == resources["products"][data.products[i]] IN
                     /\ doc.companyId = reqs[s].cid
                     /\ Contains(doc.name, query.v) \/ Contains(doc.description, query.v)
                /\ data.products = <<>> =>
                     reqs[s].out.message.says = "Sorry, I couldn't find any products matching QUERY."

\* C26: a DELETE of a product, project or offer sent by a principal that is
\* not SUPERADMIN, the company's owner included, is answered 403 and removes
\* nothing.
C26_DeleteNeedsSuperadmin ==
  [][\A s \in Slots :
       (Received(s) /\ reqs'[s].op = "remove" /\ reqs'[s].p.role # "SUPERADMIN") =>
         /\ reqs'[s].pc = "done" /\ reqs'[s].status = Forbidden
         /\ resources' = resources]_vars

\* the users that are SUPERADMIN
Superadmins(us) == findByRole(us, "SUPERADMIN")

\* C27: a user that is SUPERADMIN stays one, whatever an ADMIN or SUPERADMIN
\* asks for: after every step the user still exists, still has the role
\* and is still active; a delete or deactivate of such a user is answered
\* 403.
C27_SuperadminStays ==
  [][/\ \A u \in Superadmins(users) :
          /\ users'[u].exists /\ users'[u].role = "SUPERADMIN"
          /\ users[u].isActive => users'[u].isActive
     /\ \A s \in Slots :
          (Answered(s) /\ reqs'[s].op \in {"users.delete", "users.deactivate"}
             /\ reqs'[s].p.role \in UserAdminRoles
             /\ reqs'[s].body.id \in Superadmins(users)) =>
            reqs'[s].status = Forbidden]_vars

\* C28: at most one user is SUPERADMIN at any time, and a createSuperadmin
\* sent with a key that is not the configured one is answered 403 without
\* a write.
C28_OneSuperadmin ==
  /\ Cardinality(Superadmins(users)) <= 1
  /\ \A s \in Slots :
       (reqs[s].op = "auth.createSuperadmin" /\ reqs[s].body.secretKey # SecretKey) =>
         reqs[s].pc = "done" /\ reqs[s].status = Forbidden /\ reqs[s].trace = <<>>

\* ------------------------------------------------ resources of two companies
\* SpecCross: companies 1 (owner u1) and 2 (owner u2) both hold resources of
\* one kind, resource 1 under company 1 and resource 2 under company 2, and
\* both scripts are cached; the owners and a SUPERADMIN read, update and
\* remove resources under either company id
CrossCompanies == {1, 2}
CrossIds       == {1, 2}

InitCross ==
  /\ \E k0 \in Kinds :
       /\ companies = [c \in CompanyIds |-> IF c \in CrossCompanies
                           THEN [NewCompany(IF c = 1 THEN "u1" ELSE "u2", c) EXCEPT
                                   !.index[k0] = {i \in CrossIds : i = c}]
                           ELSE NoDoc]
       /\ resources = [k \in Kinds |-> [i \in ResourceIds |->
                         IF k = k0 /\ i \in CrossIds THEN NewDoc(i, 1) ELSE NoDoc]]
  /\ nextCompany = 3
  /\ nextResource = [k \in Kinds |-> MaxResources + 1]
  /\ cache = [k \in CacheKeys |-> IF k[2] \in CrossCompanies THEN SampleView(k[2]) ELSE NoView]
  /\ reqs = [s \in Slots |-> IdleReq]
  /\ users = RegisteredUsers

NextCross ==
  \/ \E p \in ResPrincipals \cup {[userId |-> "u2", role |-> "SUPERADMIN"]}, cid \in CrossCompanies, k \in Kinds, rid \in CrossIds \cup {BadId} :
       \/ ResFindOne(1, p, cid, k, rid)
       \/ ResUpdate(1, p, cid, k, rid, 2)
       \/ ResRemove(1, p, cid, k, rid)
  \/ ResIndex(1)
  \/ ResInvalidate(1)

SpecCross == InitCross /\ [][NextCross]_vars

\* the request names an existing resource of another company than the one
\* in its path
CrossAddressed(r) ==
  /\ r.op \in {"findOne", "update", "remove"}
  /\ r.cid \in CompanyIds
  /\ r.rid \in ResourceIds
  /\ resources[r.kind][r.rid] # NoDoc
  /\ resources[r.kind][r.rid].companyId # r.cid

\* the route's guards let the request through to the service
GuardsPassed(r) ==
  /\ canActivate(r.p, r.cid, companies).allow
  /\ r.op = "remove" => RolesGuard(RemoveRoles(r.kind), r.p)

C30_FailedMutationNoEffect ==
  [][\A s \in Slots :
       (Answered(s) /\ reqs'[s].op \in {"update", "remove"}
                    /\ reqs'[s].status = NotFound) =>
         /\ reqs'[s].trace = <<>>
         /\ UNCHANGED <<resources, companies, cache>>]_vars

\* a SUPERADMIN's remove of an offer that does not exist ended with
\* NotFound while the company's script was cached
C30_Witness ==
  /\ reqs[1].pc = "done"
  /\ reqs[1].op = "remove"
  /\ reqs[1].kind = "offers"
  /\ reqs[1].p.role = "SUPERADMIN"
  /\ reqs[1].status = NotFound
  /\ reqs[1].rid \in ResourceIds
  /\ resources["offers"][reqs[1].rid] = NoDoc
  /\ reqs[1].cid \in CrossCompanies
  /\ cache[getCacheKey(reqs[1].cid)] # NoView

====
